---------------------------- MODULE Spec2Model ----------------------------
(***************************************************************************)
(* Model of src/src/AudioClip.cpp (MediaCore): AudioClip_AudioImpl, the    *)
(* default transition and AudioOverlap_Impl.                               *)
(*                                                                         *)
(* Times are milliseconds, sample counts are samples, as in the source.    *)
(* A clip is a record holding the members of AudioClip_AudioImpl plus the  *)
(* two properties of its MediaReader session the clip reads back           *)
(* (GetAudioOutSampleRate, IsDirectionForward).  The MediaReader itself is *)
(* an external collaborator: every answer it gives (seek result, reported  *)
(* read position, delivered sample count, end of stream, failure) is an    *)
(* input of the operation that asks for it.                                *)
(***************************************************************************)
EXTENDS Integers, Sequences, FiniteSets, TLC

VARIABLES
    clip,       \* handle -> AudioClip_AudioImpl members
    overlap,    \* sequence of AudioOverlap_Impl objects (empty or one)
    op,         \* the last call made on the API, its arguments and results
    srcCalls    \* the calls that call issued on a MediaReader session

vars == <<clip, overlap, op, srcCalls>>

---------------------------------------------------------------------------
(* Bounds of the model *)

MaxOffsetSteps == 1

(* Input domains *)

SrcDurations == {2000}
SampleRates == {8000, 44100}
Starts == {0, 1000}
Spans == {0, 1000}
TimelineSpans == {500, 1000, 2000}
Offsets == {1000 * k : k \in 0..MaxOffsetSteps}
ArgOffsets == Offsets \cup {0 - 500}
Drifts == {0 - 500, 0, 4, 500}
Directions == BOOLEAN

---------------------------------------------------------------------------
(* Arithmetic of the C++ source *)

Abs(x) == IF x < 0 THEN 0 - x ELSE x

Min(a, b) == IF a <= b THEN a ELSE b

\* int64_t division: truncation toward zero (b > 0)
CDiv(a, b) == IF a >= 0 THEN a \div b ELSE 0 - ((0 - a) \div b)

MAX_ALLOWED_MISMATCH_SAMPLES == 200

---------------------------------------------------------------------------
(* AudioClip_AudioImpl: observers *)

Start(c) == c.m_start

Duration(c) == c.m_srcDuration + c.m_padding - c.m_startOffset - c.m_endOffset

End(c) == c.m_start + Duration(c)

StartOffset(c) == c.m_startOffset

EndOffset(c) == c.m_endOffset

OutSampleRate(c) == c.outSampleRate

ReadPos(c) == CDiv(c.m_readSamples * 1000, OutSampleRate(c)) + c.m_start

LeftSamples(c) ==
    IF c.forward
    THEN IF c.m_totalSamples > c.m_readSamples
         THEN c.m_totalSamples - c.m_readSamples ELSE 0
    ELSE IF c.m_readSamples > c.m_totalSamples THEN 0
         ELSE IF c.m_readSamples >= 0 THEN c.m_readSamples ELSE 0

TotalSamplesOf(c) == CDiv(Duration(c) * OutSampleRate(c), 1000)

---------------------------------------------------------------------------
(* AudioClip_AudioImpl: construction *)

CtorArgs ==
    [start : Starts, span : Spans, startOffset : ArgOffsets,
     endOffset : ArgOffsets, outSampleRate : SampleRates,
     srcDuration : SrcDurations]

ArgEnd(a) == a.start + a.span

\* the validation of the constructor: which arguments do not throw
CtorAccepts(a) ==
    /\ ~(a.startOffset < 0)
    /\ ~(a.endOffset < 0)
    /\ ~(ArgEnd(a) <= a.start)

\* a padding that forgets the tail trim
CtorPadding_NoEndOffset(a) ==
    (ArgEnd(a) - a.start) + a.startOffset - a.srcDuration

CtorPadding(a) ==
    (ArgEnd(a) - a.start) + a.startOffset + a.endOffset - a.srcDuration

AudioClip_AudioImpl(a) ==
    LET c0 == [m_start |-> a.start,
               m_srcDuration |-> a.srcDuration,
               m_startOffset |-> a.startOffset,
               m_endOffset |-> a.endOffset,
               m_padding |-> CtorPadding(a),
               m_readSamples |-> 0,
               m_totalSamples |-> 0,
               m_eof |-> FALSE,
               m_initSeek |-> FALSE,
               outSampleRate |-> a.outSampleRate,
               forward |-> TRUE]
    IN [c0 EXCEPT !.m_totalSamples = TotalSamplesOf(c0)]

NoSrc == [drift |-> 0, seek |-> "ok", skip |-> "ok", read |-> "full"]

NoMat == [w |-> 0, time_stamp |-> 0, silence |-> FALSE]

\* sub: the calls an overlap's call made on its clips, in order
NoOp == [name |-> "CreateInstance", h |-> 0, arg |-> 0, ret |-> 0,
         eof |-> FALSE, err |-> "none", src |-> NoSrc, amat |-> NoMat,
         sub |-> <<>>]

Call(name, h, arg) == [NoOp EXCEPT !.name = name, !.h = h, !.arg = arg]

Throw(name, h, arg, what) == [Call(name, h, arg) EXCEPT !.err = what]

SrcCall(f, arg) == [f |-> f, arg |-> arg]

Init ==
    /\ \E a \in CtorArgs :
          /\ CtorAccepts(a)
          /\ clip = (1 :> AudioClip_AudioImpl(a))
          /\ op = Call("CreateInstance", 1, a)
    /\ overlap = <<>>
    /\ srcCalls = <<>>

---------------------------------------------------------------------------
(* AudioClip_AudioImpl: mutators *)

SetStart(h, start) ==
    /\ clip' = [clip EXCEPT ![h].m_start = start]
    /\ op' = Call("SetStart", h, start)
    /\ srcCalls' = <<>>
    /\ UNCHANGED overlap

\* a head trim that leaves the consumed-sample counter alone
AdjustReadSamples_Unadjusted(c, newTotalSamples) == c.m_readSamples

\* m_readSamples += newTotalSamples-m_totalSamples
AdjustReadSamples(c, newTotalSamples) ==
    c.m_readSamples + (newTotalSamples - c.m_totalSamples)

\* the clip after ChangeStartOffset(startOffset), and what the call threw
ChangeStartOffsetResult(c, startOffset) ==
    IF startOffset = c.m_startOffset THEN [clip |-> c, err |-> "none"]
    ELSE IF startOffset < 0 THEN [clip |-> c, err |-> "invalid_argument"]
    ELSE IF startOffset + c.m_endOffset >= c.m_srcDuration
         THEN [clip |-> c, err |-> "invalid_argument"]
    ELSE LET c1 == [c EXCEPT !.m_startOffset = startOffset]
             newTotalSamples == TotalSamplesOf(c1)
         IN [clip |-> [c1 EXCEPT
                         !.m_readSamples = AdjustReadSamples(c, newTotalSamples),
                         !.m_totalSamples = newTotalSamples],
             err |-> "none"]

ChangeStartOffset(h, startOffset) ==
    LET r == ChangeStartOffsetResult(clip[h], startOffset)
    IN /\ clip' = [clip EXCEPT ![h] = r.clip]
       /\ op' = Throw("ChangeStartOffset", h, startOffset, r.err)
       /\ srcCalls' = <<>>
       /\ UNCHANGED overlap

\* a tail trim that moves the consumed-sample counter as a head trim does
ChangeEndOffsetResult_Adjusting(c, endOffset) ==
    IF endOffset = c.m_endOffset THEN [clip |-> c, err |-> "none"]
    ELSE IF endOffset < 0 THEN [clip |-> c, err |-> "invalid_argument"]
    ELSE IF c.m_startOffset + endOffset >= c.m_srcDuration
         THEN [clip |-> c, err |-> "invalid_argument"]
    ELSE LET c1 == [c EXCEPT !.m_endOffset = endOffset]
         IN [clip |-> [c1 EXCEPT
                         !.m_readSamples = AdjustReadSamples(c, TotalSamplesOf(c1)),
                         !.m_totalSamples = TotalSamplesOf(c1)],
             err |-> "none"]

\* the clip after ChangeEndOffset(endOffset), and what the call threw
ChangeEndOffsetResult(c, endOffset) ==
    IF endOffset = c.m_endOffset THEN [clip |-> c, err |-> "none"]
    ELSE IF endOffset < 0 THEN [clip |-> c, err |-> "invalid_argument"]
    ELSE IF c.m_startOffset + endOffset >= c.m_srcDuration
         THEN [clip |-> c, err |-> "invalid_argument"]
    ELSE LET c1 == [c EXCEPT !.m_endOffset = endOffset]
         IN [clip |-> [c1 EXCEPT !.m_totalSamples = TotalSamplesOf(c1)],
             err |-> "none"]

ChangeEndOffset(h, endOffset) ==
    LET r == ChangeEndOffsetResult(clip[h], endOffset)
    IN /\ clip' = [clip EXCEPT ![h] = r.clip]
       /\ op' = Throw("ChangeEndOffset", h, endOffset, r.err)
       /\ srcCalls' = <<>>
       /\ UNCHANGED overlap

SetDirection(h, forward) ==
    /\ clip' = [clip EXCEPT ![h].forward = forward]
    /\ op' = Call("SetDirection", h, forward)
    /\ srcCalls' = <<SrcCall("SetDirection", forward)>>
    /\ UNCHANGED overlap

---------------------------------------------------------------------------
(* AudioClip_AudioImpl::SeekTo *)

\* a range check without its upper limit
SeekInRange_NoUpper(c, pos) == ~(pos < 0)

\* the range check of SeekTo
SeekInRange(c, pos) == ~(pos < 0 \/ pos > Duration(c))

\* a target computed from the source-relative position
TargetReadSamples_FromSeekPos(c, pos) ==
    CDiv((pos + c.m_startOffset) * OutSampleRate(c), 1000)

TargetReadSamples(c, pos) == CDiv(pos * OutSampleRate(c), 1000)

\* seekOk is the answer of MediaReader::SeekTo
SeekToResult(c, pos, seekOk) ==
    IF ~SeekInRange(c, pos)
    THEN [clip |-> c, err |-> "none", calls |-> <<>>]
    ELSE LET targetReadSamples == TargetReadSamples(c, pos)
             seekPos == Min(pos + c.m_startOffset, c.m_srcDuration)
         IN IF targetReadSamples = c.m_readSamples
            THEN [clip |-> c, err |-> "none", calls |-> <<>>]
            ELSE IF ~seekOk
            THEN [clip |-> c, err |-> "runtime_error",
                  calls |-> <<SrcCall("SeekTo", seekPos)>>]
            ELSE [clip |-> [c EXCEPT !.m_readSamples = targetReadSamples,
                                     !.m_eof = FALSE],
                  err |-> "none",
                  calls |-> <<SrcCall("SeekTo", seekPos)>>]

SeekPositions(c) ==
    {0 - 1, 0, 1, Duration(c), Duration(c) + 1}

SeekTo(h, pos, seekOk) ==
    \E r \in {SeekToResult(clip[h], pos, seekOk)} :
       /\ (~seekOk => r.err = "runtime_error")
       /\ clip' = [clip EXCEPT ![h] = r.clip]
       /\ op' = [Throw("SeekTo", h, pos, r.err) EXCEPT
                    !.src.seek = IF seekOk THEN "ok" ELSE "fail"]
       /\ srcCalls' = r.calls
       /\ UNCHANGED overlap

---------------------------------------------------------------------------
(* AudioClip_AudioImpl::ReadAudioSamples *)

\* What the MediaReader session answers during one ReadAudioSamples call:
\*   drift: GetReadPos() minus the position the clip expects (ms)
\*   seek:  the answer to the one-time initial seek
\*   skip:  the answer to the read that discards samples
\*   read:  the answer to the read that delivers samples; it sets srcEof
SeekAnswers == {"ok", "fail"}
SkipAnswers == {"ok", "fail"}
ReadAnswers == {"full", "fullEof", "short", "none", "noneEof", "over", "fail"}
EofAnswers == {"fullEof", "noneEof"}
SrcAnswers ==
    [drift : Drifts, seek : SeekAnswers, skip : SkipAnswers, read : ReadAnswers]

\* samples MediaReader::ReadAudioSamples delivers when asked for n: all of
\* them, half a second of samples less or more, or none
Delivered(answer, n, sampleRate) ==
    CASE answer \in {"full", "fullEof"} -> n
      [] answer = "short" -> n - Min(n, sampleRate \div 2)
      [] answer = "over" -> n + sampleRate \div 2
      [] OTHER -> 0

\* The whole numbers of milliseconds m, up to 8000, for which the binary64
\* product (m/1000)*1000 lies just below m, so that its conversion to int64_t
\* gives m - 1.  (double)readSamples/sampleRate is the correctly rounded
\* quotient, so it is the same double for every readSamples/sampleRate that
\* equals m/1000; a quotient that is no whole number of milliseconds is too
\* far from one for the rounding to matter.
DoubleRoundsBelow ==
    {1001, 1003, 1005, 1007, 1009, 1011, 1013, 1015, 1017, 1019, 1021, 1023,
     2002, 2006, 2010, 2014, 2018, 2022, 2026, 2030, 2034, 2038, 2042, 2046,
     4004, 4007, 4012, 4015, 4020, 4023, 4028, 4031, 4036, 4039, 4044, 4047,
     4052, 4055, 4060, 4063, 4068, 4071, 4076, 4079, 4084, 4087, 4092, 4095}

\* (int64_t)((double)readSamples/sampleRate*1000)
DoubleMs(readSamples, sampleRate) ==
    LET exact == CDiv(readSamples * 1000, sampleRate)
    IN IF (readSamples * 1000) % sampleRate = 0 /\ Abs(exact) \in DoubleRoundsBelow
       THEN (IF exact > 0 THEN exact - 1 ELSE exact + 1)
       ELSE exact

\* (int64_t)((double)m_readSamples/sampleRate*1000)+m_startOffset
ExpectedReadPos(c) ==
    DoubleMs(c.m_readSamples, OutSampleRate(c)) + c.m_startOffset

\* abs(sourceReadPos-expectedReadPos)*sampleRate/1000
MismatchSamples(c, sourceReadPos) ==
    CDiv(Abs(sourceReadPos - ExpectedReadPos(c)) * OutSampleRate(c), 1000)

\* diffSamples after the comparison with the tolerance
DiffSamples(c, sourceReadPos) ==
    IF MismatchSamples(c, sourceReadPos) > MAX_ALLOWED_MISMATCH_SAMPLES
    THEN MismatchSamples(c, sourceReadPos) ELSE 0

\* a skip decided when the source is ahead of the expected position
Skip_WhenAhead(c, sourceReadPos) ==
    IF MismatchSamples(c, sourceReadPos) > MAX_ALLOWED_MISMATCH_SAMPLES
    THEN (IF sourceReadPos > ExpectedReadPos(c) THEN c.forward ELSE ~c.forward)
    ELSE FALSE

\* the flag skip
Skip(c, sourceReadPos) ==
    IF MismatchSamples(c, sourceReadPos) > MAX_ALLOWED_MISMATCH_SAMPLES
    THEN (IF ExpectedReadPos(c) > sourceReadPos THEN c.forward ELSE ~c.forward)
    ELSE FALSE

\* a request that is not clamped
ClampRequest_Unclamped(n, leftSamples) == n

\* if (readSamples > leftSamples) readSamples = leftSamples
ClampRequest(n, leftSamples) == IF n > leftSamples THEN leftSamples ELSE n

\* a state update that ignores the direction
Advance_AlwaysForward(c, readForward, got) == c.m_readSamples + got

\* a state update that is left out
Advance_NoUpdate(c, readForward, got) == c.m_readSamples

\* m_readSamples after the state update
Advance(c, readForward, got) ==
    IF readForward THEN c.m_readSamples + got ELSE c.m_readSamples - got

\* an eof that only the source can raise
AtEnd_SourceOnly(c, srcEof) == srcEof

\* leftSamples2 == 0 || srcEof
AtEnd(c, srcEof) == LeftSamples(c) = 0 \/ srcEof

\* amat.time_stamp, kept in ms: (double)(expectedReadPos-m_startOffset+m_start)/1000
TimeStampOf(c, expectedReadPos) == expectedReadPos - c.m_startOffset + c.m_start

\* if (!m_initSeek) { if (expectedReadPos > 1000) m_srcReader->SeekTo(...) }
InitSeekAsked(c) == ~c.m_initSeek /\ ExpectedReadPos(c) > 1000

\* n is the caller's readSamples on entry, a the session's answers.
\* Result: the clip afterwards, readSamples and eof as the caller finds them,
\* the buffer returned, what was thrown, the calls made on the session.
ReadAudioSamplesResult(c, n, a) ==
    LET leftSamples == LeftSamples(c) IN
    IF c.m_eof \/ leftSamples = 0
    THEN [clip |-> [c EXCEPT !.m_eof = TRUE], ret |-> 0, eof |-> TRUE,
          amat |-> NoMat, err |-> "none", calls |-> <<>>]
    ELSE
    LET readSamples == ClampRequest(n, leftSamples)
        sampleRate == OutSampleRate(c)
        expectedReadPos == ExpectedReadPos(c)
        initSeek == IF InitSeekAsked(c)
                    THEN <<SrcCall("SeekTo", expectedReadPos)>> ELSE <<>>
        c1 == [c EXCEPT !.m_initSeek = TRUE]
        sourceReadPos == expectedReadPos + a.drift
        readForward == c.forward
        skip == Skip(c, sourceReadPos)
        diffSamples == DiffSamples(c, sourceReadPos)
        doSkip == diffSamples > 0 /\ skip
        skipCall == IF doSkip
                    THEN <<SrcCall("ReadAudioSamples", diffSamples)>> ELSE <<>>
        silenceSamples == Min(diffSamples, readSamples)
        silenceMat == IF diffSamples > 0 /\ ~skip
                      THEN [w |-> silenceSamples,
                            time_stamp |-> TimeStampOf(c, expectedReadPos),
                            silence |-> TRUE]
                      ELSE NoMat
        doRead == silenceMat.w = 0
        readCall == <<SrcCall("ReadAudioSamples", readSamples)>>
    IN
    IF doSkip /\ a.skip = "fail"
    THEN [clip |-> c1, ret |-> readSamples, eof |-> FALSE, amat |-> NoMat,
          err |-> "runtime_error", calls |-> initSeek \o skipCall]
    ELSE IF doRead /\ a.read = "fail"
    THEN [clip |-> c1, ret |-> readSamples, eof |-> FALSE, amat |-> NoMat,
          err |-> "runtime_error",
          calls |-> initSeek \o skipCall \o readCall]
    ELSE
    LET amat == IF doRead
                THEN [w |-> Delivered(a.read, readSamples, sampleRate),
                      time_stamp |-> TimeStampOf(c, expectedReadPos),
                      silence |-> FALSE]
                ELSE silenceMat
        srcEof == doRead /\ a.read \in EofAnswers
        got == amat.w
        c2 == [c1 EXCEPT !.m_readSamples = Advance(c, readForward, got)]
        atEnd == AtEnd(c2, srcEof)
    IN [clip |-> [c2 EXCEPT !.m_eof = atEnd \/ c.m_eof],
        ret |-> got, eof |-> atEnd, amat |-> amat, err |-> "none",
        calls |-> initSeek \o skipCall
                  \o (IF doRead THEN readCall ELSE <<>>)]

ReadCounts(c) == {OutSampleRate(c), 1000000}

\* the answers the session gives to the questions this call asks it (an
\* answer that is not asked for is left at its default)
AnswersAsked(c, n) ==
    IF c.m_eof \/ LeftSamples(c) = 0 THEN {NoSrc}
    ELSE UNION {
        LET sourceReadPos == ExpectedReadPos(c) + d
            diffSamples == DiffSamples(c, sourceReadPos)
            seeks == IF InitSeekAsked(c) THEN SeekAnswers ELSE {"ok"}
        IN IF diffSamples > 0 /\ Skip(c, sourceReadPos)
           THEN [drift : {d}, seek : seeks, skip : {"fail"}, read : {"full"}]
                \cup [drift : {d}, seek : seeks, skip : {"ok"}, read : ReadAnswers]
           ELSE IF diffSamples > 0 /\ Min(diffSamples, ClampRequest(n, LeftSamples(c))) > 0
           THEN [drift : {d}, seek : seeks, skip : {"ok"}, read : {"full"}]
           ELSE [drift : {d}, seek : seeks, skip : {"ok"}, read : ReadAnswers]
        : d \in Drifts }

ReadAudioSamples(h, n, a) ==
    \E r \in {ReadAudioSamplesResult(clip[h], n, a)} :
       /\ clip' = [clip EXCEPT ![h] = r.clip]
       /\ op' = [name |-> "ReadAudioSamples", h |-> h, arg |-> n,
                 ret |-> r.ret, eof |-> r.eof, err |-> r.err,
                 src |-> a, amat |-> r.amat, sub |-> <<>>]
       /\ srcCalls' = r.calls
       /\ UNCHANGED overlap

---------------------------------------------------------------------------
(* DefaultAudioTransition_Impl and AudioOverlap_Impl *)

DefaultAudioTransition_Impl == [kind |-> "default", m_overlapPtr |-> 0]

ApplyTo(transition, o) == [transition EXCEPT !.m_overlapPtr = o]

\* a window that always ends with the rear clip
WindowEnd_RearEnd(front, rear) == End(rear)

\* m_frontClip->End() <= m_rearClip->End() ? m_frontClip->End() : m_rearClip->End()
WindowEnd(front, rear) ==
    IF End(front) <= End(rear) THEN End(front) ELSE End(rear)

\* the overlap after Update(), clips being the clips its handles refer to
UpdateResult(o, clips) ==
    LET hClip1 == o.m_frontClip
        hClip2 == o.m_rearClip
        o1 == IF Start(clips[hClip1]) <= Start(clips[hClip2])
              THEN [o EXCEPT !.m_frontClip = hClip1, !.m_rearClip = hClip2]
              ELSE [o EXCEPT !.m_frontClip = hClip2, !.m_rearClip = hClip1]
        front == clips[o1.m_frontClip]
        rear == clips[o1.m_rearClip]
    IN IF End(front) <= Start(rear)
       THEN [o1 EXCEPT !.m_start = 0, !.m_end = 0]
       ELSE [o1 EXCEPT !.m_start = Start(rear),
                       !.m_end = WindowEnd(front, rear)]

AudioOverlap_Impl(hClip1, hClip2, clips) ==
    LET o0 == [m_frontClip |-> hClip1, m_rearClip |-> hClip2,
               m_start |-> 0, m_end |-> 0,
               m_transition |-> DefaultAudioTransition_Impl]
        o1 == UpdateResult(o0, clips)
    IN [o1 EXCEPT !.m_transition = ApplyTo(o1.m_transition, 1)]

OverlapStart(o) == o.m_start

OverlapEnd(o) == o.m_end

OverlapDuration(o) == o.m_end - o.m_start

FrontClip(o) == o.m_frontClip

RearClip(o) == o.m_rearClip

Update ==
    /\ overlap # <<>>
    /\ overlap' = <<UpdateResult(overlap[1], clip)>>
    /\ op' = Call("Update", 0, 0)
    /\ srcCalls' = <<>>
    /\ UNCHANGED clip

\* AudioOverlap::HasOverlap
HasOverlap(hClip1, hClip2) ==
    \/ (Start(hClip1) >= Start(hClip2) /\ Start(hClip1) < End(hClip2))
    \/ (End(hClip1) > Start(hClip2) /\ End(hClip1) <= End(hClip2))
    \/ (Start(hClip1) < Start(hClip2) /\ End(hClip1) > End(hClip2))

CallHasOverlap(h1, h2) ==
    /\ op' = [Call("HasOverlap", h1, h2) EXCEPT
                 !.ret = HasOverlap(clip[h1], clip[h2])]
    /\ srcCalls' = <<>>
    /\ UNCHANGED <<clip, overlap>>

(* AudioOverlap_Impl: SetTransition, SeekTo, ReadAudioSamples *)

\* the null AudioTransition::Holder and a transition the caller implements
NullTransition == [kind |-> "null", m_overlapPtr |-> 0]
CustomTransition == [kind |-> "custom", m_overlapPtr |-> 0]
Transitions == {NullTransition, CustomTransition}

\* a setter that installs whatever it is given
Installed_AsGiven(hTrans, id) == hTrans

\* m_transition after SetTransition(hTrans) on the overlap id
Installed(hTrans, id) ==
    IF hTrans.kind # "null"
    THEN ApplyTo(hTrans, id)
    ELSE ApplyTo(DefaultAudioTransition_Impl, id)

GetTransition(o) == o.m_transition

SetTransition(hTrans) ==
    /\ overlap # <<>>
    /\ overlap' = <<[overlap[1] EXCEPT !.m_transition = Installed(hTrans, 1)]>>
    /\ op' = Call("SetTransition", 0, hTrans)
    /\ srcCalls' = <<>>
    /\ UNCHANGED clip

\* a default transition that plays the front clip
DefaultMixTwoAudioMats_Front(amat1, amat2) == amat1

\* DefaultAudioTransition_Impl::MixTwoAudioMats
DefaultMixTwoAudioMats(amat1, amat2) == amat2

\* transition->MixTwoAudioMats: a caller's transition returns a buffer of its
\* own choice, here one of the two it is given (mix)
MixTwoAudioMats(transition, amat1, amat2, mix) ==
    IF transition.kind = "default" THEN DefaultMixTwoAudioMats(amat1, amat2)
    ELSE IF mix = 1 THEN amat1 ELSE amat2

\* the record of one call an overlap made on the clip h
SubCall(h, arg, r, a) ==
    [h |-> h, arg |-> arg, ret |-> r.ret, eof |-> r.eof, err |-> r.err,
     src |-> a, amat |-> r.amat]

OverlapSeekPositions(o) ==
    {0 - 1, 0, 500, OverlapDuration(o), OverlapDuration(o) + 1}

\* ok1, ok2: the answers of the two sessions to MediaReader::SeekTo
OverlapSeekTo(pos, ok1, ok2) ==
    /\ overlap # <<>>
    /\ LET o == overlap[1]
           f == o.m_frontClip
           r == o.m_rearClip
           none == [ret |-> 0, eof |-> FALSE, err |-> "none", amat |-> NoMat]
           name == "AudioOverlap::SeekTo"
       IN IF pos > OverlapDuration(o)
          THEN /\ ok1 /\ ok2
               /\ op' = Call(name, 0, pos)
               /\ srcCalls' = <<>>
               /\ UNCHANGED clip
          ELSE LET p == IF pos < 0 THEN 0 ELSE pos
                   pos1 == p + (OverlapStart(o) - Start(clip[f]))
                   pos2 == p + (OverlapStart(o) - Start(clip[r]))
               IN \E r1 \in {SeekToResult(clip[f], pos1, ok1)} :
                  LET s1 == SubCall(f, pos1, [none EXCEPT !.err = r1.err], NoSrc)
                  IN IF r1.err # "none"
                     THEN /\ ok2
                          /\ clip' = [clip EXCEPT ![f] = r1.clip]
                          /\ op' = [Throw(name, 0, pos, r1.err) EXCEPT !.sub = <<s1>>]
                          /\ srcCalls' = r1.calls
                     ELSE \E r2 \in {SeekToResult(clip[r], pos2, ok2)} :
                          LET s2 == SubCall(r, pos2, [none EXCEPT !.err = r2.err], NoSrc)
                          IN /\ ok1
                             /\ ~ok2 => r2.err # "none"
                             /\ clip' = [clip EXCEPT ![f] = r1.clip, ![r] = r2.clip]
                             /\ op' = [Throw(name, 0, pos, r2.err) EXCEPT
                                          !.sub = <<s1, s2>>]
                             /\ srcCalls' = r1.calls \o r2.calls
    /\ UNCHANGED overlap

\* readSamples after the two comparisons with the clips' LeftSamples()
OverlapClamp(n, leftSamples1, leftSamples2) ==
    LET n1 == IF leftSamples1 < n THEN leftSamples1 ELSE n
    IN IF leftSamples2 < n1 THEN leftSamples2 ELSE n1

\* the answers of a clip's session during a read made through the overlap:
\* it is where the clip expects it or ahead of it, and it delivers all or a
\* part of what it is asked for, or fails
OverlapAnswers(c, n) ==
    {a \in AnswersAsked(c, n) :
        a.drift \in {0, 500} /\ a.read \in {"full", "short", "fail"}}

\* the buffers a caller's transition may return
MixChoices(transition) == IF transition.kind = "default" THEN {2} ELSE {1, 2}

\* n is the caller's readSamples on entry; the clips' sessions answer as in
\* AudioClip_AudioImpl::ReadAudioSamples
OverlapReadAudioSamples(n) ==
    /\ overlap # <<>>
    /\ LET o == overlap[1]
           f == o.m_frontClip
           r == o.m_rearClip
           name == "AudioOverlap::ReadAudioSamples"
           readSamples == OverlapClamp(n, LeftSamples(clip[f]), LeftSamples(clip[r]))
       IN IF readSamples = 0
          THEN /\ op' = [Call(name, 0, n) EXCEPT !.eof = TRUE]
               /\ srcCalls' = <<>>
               /\ UNCHANGED clip
          ELSE \E a1 \in OverlapAnswers(clip[f], readSamples) :
               \E r1 \in {ReadAudioSamplesResult(clip[f], readSamples, a1)} :
               LET s1 == SubCall(f, readSamples, r1, a1)
               IN IF r1.err # "none"
                  THEN /\ clip' = [clip EXCEPT ![f] = r1.clip]
                       /\ op' = [Throw(name, 0, n, r1.err) EXCEPT
                                    !.ret = r1.ret, !.sub = <<s1>>]
                       /\ srcCalls' = r1.calls
                  ELSE \E a2 \in OverlapAnswers(clip[r], r1.ret) :
                       \E r2 \in {ReadAudioSamplesResult(clip[r], r1.ret, a2)} :
                       \E mix \in MixChoices(o.m_transition) :
                       LET s2 == SubCall(r, r1.ret, r2, a2)
                       IN /\ clip' = [clip EXCEPT ![f] = r1.clip, ![r] = r2.clip]
                          /\ op' = IF r2.err # "none"
                                   THEN [Throw(name, 0, n, r2.err) EXCEPT
                                           !.ret = r2.ret, !.sub = <<s1, s2>>]
                                   ELSE [Call(name, 0, n) EXCEPT
                                           !.ret = r2.ret,
                                           !.eof = r1.eof \/ r2.eof,
                                           !.amat = MixTwoAudioMats(o.m_transition,
                                                       r1.amat, r2.amat, mix),
                                           !.sub = <<s1, s2>>]
                          /\ srcCalls' = r1.calls \o r2.calls
    /\ UNCHANGED overlap

---------------------------------------------------------------------------
(* One clip on its own: every operation of AudioClip *)

ClipCall(h) ==
    \/ \E s \in Starts : SetStart(h, s)
    \/ \E v \in ArgOffsets : ChangeStartOffset(h, v)
    \/ \E v \in ArgOffsets : ChangeEndOffset(h, v)
    \/ \E b \in Directions : SetDirection(h, b)
    \/ \E pos \in SeekPositions(clip[h]), ok \in BOOLEAN : SeekTo(h, pos, ok)

Next ==
    \E h \in DOMAIN clip :
        \/ ClipCall(h)
        \/ \E n \in ReadCounts(clip[h]) :
              \E a \in AnswersAsked(clip[h], n) : ReadAudioSamples(h, n, a)

Spec == Init /\ [][Next]_vars

(* The same clip on a source session that never reports end of stream *)

NextNoSrcEof ==
    \E h \in DOMAIN clip :
        \/ ClipCall(h)
        \/ \E n \in ReadCounts(clip[h]) :
              \E a \in {x \in AnswersAsked(clip[h], n) : x.read \notin EofAnswers} :
                 ReadAudioSamples(h, n, a)

SpecNoSrcEof == Init /\ [][NextNoSrcEof]_vars

(* A clip that was built, positioned and given a direction, and is then    *)
(* only read, again and again, from a session whose reads deliver at least *)
(* one sample or report end of stream                                      *)

\* the clip after CreateInstance(a), SeekTo(pos) and SetDirection(forward),
\* no call failing
Positioned(a, pos, forward) ==
    LET c0 == AudioClip_AudioImpl(a)
        c1 == SeekToResult(c0, pos, TRUE).clip
    IN [c1 EXCEPT !.forward = forward]

\* m_start plays no part in a read: the clips start at 0
InitReading ==
    /\ \E a \in CtorArgs, forward \in Directions :
          /\ CtorAccepts(a)
          /\ a.start = 0
          /\ \E pos \in SeekPositions(AudioClip_AudioImpl(a)) :
                clip = (1 :> Positioned(a, pos, forward))
          /\ op = Call("SetDirection", 1, forward)
          /\ srcCalls = <<SrcCall("SetDirection", forward)>>
    /\ overlap = <<>>

\* the answers among those asked in which no call on the session fails and
\* the read delivers at least one sample or reports end of stream
DeliveringAnswers(c, n) ==
    {a \in AnswersAsked(c, n) :
        /\ a.skip = "ok"
        /\ a.read # "fail"
        /\ \/ c.m_eof \/ LeftSamples(c) = 0
           \/ a.read \in EofAnswers
           \/ Delivered(a.read, ClampRequest(n, LeftSamples(c)),
                        OutSampleRate(c)) > 0}

\* a reported position off the expected one but within the tolerance: the
\* read goes as with the expected position
Tolerated(c, a) ==
    a.drift # 0 /\ DiffSamples(c, ExpectedReadPos(c) + a.drift) = 0

NextReading ==
    \E h \in DOMAIN clip :
        \E n \in ReadCounts(clip[h]) :
            \E a \in DeliveringAnswers(clip[h], n) :
                /\ ~Tolerated(clip[h], a)
                /\ ReadAudioSamples(h, n, a)

\* the caller keeps reading
SpecReading == InitReading /\ [][NextReading]_vars /\ WF_vars(NextReading)

(* Two clips of one timeline (the same output format) and their overlap:   *)
(* the timeline moves and trims the clips and updates the overlap          *)

TimelineArgs ==
    [start : Starts, span : TimelineSpans, startOffset : {0}, endOffset : {0},
     outSampleRate : SampleRates, srcDuration : SrcDurations]

InitOverlap ==
    /\ \E a1 \in TimelineArgs, a2 \in TimelineArgs :
          /\ CtorAccepts(a1)
          /\ CtorAccepts(a2)
          /\ a1.outSampleRate = a2.outSampleRate
          /\ clip = (1 :> AudioClip_AudioImpl(a1)) @@ (2 :> AudioClip_AudioImpl(a2))
    /\ \E h1 \in {1, 2} :
          /\ overlap = <<AudioOverlap_Impl(h1, 3 - h1, clip)>>
          /\ op = Call("AudioOverlap::CreateInstance", h1, 3 - h1)
    /\ srcCalls = <<>>

NextOverlap ==
    \/ \E h \in DOMAIN clip :
          \/ \E s \in Starts : SetStart(h, s)
          \/ \E v \in ArgOffsets : ChangeStartOffset(h, v)
          \/ \E v \in ArgOffsets : ChangeEndOffset(h, v)
    \/ Update
    \/ \E h1 \in DOMAIN clip : CallHasOverlap(h1, 3 - h1)

SpecOverlap == InitOverlap /\ [][NextOverlap]_vars

(* Two clips that play their whole source, and their overlap: the timeline *)
(* seeks and reads through the overlap and sets its transition             *)

PlayingArgs ==
    {a \in TimelineArgs : CtorPadding(a) = 0 /\ a.outSampleRate = 8000}

InitOverlapRead ==
    /\ \E a1 \in PlayingArgs, a2 \in PlayingArgs :
          /\ CtorAccepts(a1)
          /\ CtorAccepts(a2)
          /\ clip = (1 :> AudioClip_AudioImpl(a1)) @@ (2 :> AudioClip_AudioImpl(a2))
    /\ \E h1 \in {1, 2} :
          /\ overlap = <<AudioOverlap_Impl(h1, 3 - h1, clip)>>
          /\ op = Call("AudioOverlap::CreateInstance", h1, 3 - h1)
    /\ srcCalls = <<>>

NextOverlapRead ==
    \/ \E hTrans \in Transitions : SetTransition(hTrans)
    \/ \E pos \in OverlapSeekPositions(overlap[1]), ok1 \in BOOLEAN, ok2 \in BOOLEAN :
          OverlapSeekTo(pos, ok1, ok2)
    \/ \E n \in ReadCounts(clip[1]) : OverlapReadAudioSamples(n)

SpecOverlapRead == InitOverlapRead /\ [][NextOverlapRead]_vars

---------------------------------------------------------------------------
(* Properties *)

IsRead(o) == o.name = "ReadAudioSamples"

\* a clip as a timeline normally builds it: its span is the trimmed source,
\* it has a positive duration and its consumed-sample counter is inside it
Regular(c) ==
    /\ c.m_padding = 0
    /\ Duration(c) > 0
    /\ c.m_startOffset + c.m_endOffset < c.m_srcDuration
    /\ c.m_readSamples >= 0
    /\ c.m_readSamples <= c.m_totalSamples

\* C1: a clip's Duration() is end - start when it is constructed, and in
\* every later state it is sourceDuration + padding - startOffset - endOffset
\* with the padding and the source duration the constructor computed.
C1_DurationIdentity ==
    /\ [](op.name = "CreateInstance" =>
            \A h \in DOMAIN clip :
                /\ Duration(clip[h]) = ArgEnd(op.arg) - op.arg.start
                /\ clip[h].m_padding
                     = ArgEnd(op.arg) - op.arg.start + op.arg.startOffset
                       + op.arg.endOffset - op.arg.srcDuration)
    /\ [][\A h \in DOMAIN clip :
              Duration(clip'[h]) = clip[h].m_srcDuration + clip[h].m_padding
                                   - clip'[h].m_startOffset - clip'[h].m_endOffset]_vars

C1_Witness ==
    /\ op.name = "ChangeStartOffset" /\ op.err = "none"
    /\ clip[1].m_startOffset > 0
    /\ clip[1].m_readSamples > 0
    /\ clip[1].m_start > 0

\* C2: a ReadAudioSamples call never returns more samples than LeftSamples()
\* reported before the call, unless the source delivered more than it was
\* asked for.
C2_ReadWithinLeft ==
    [][IsRead(op') /\ op'.src.read # "over"
         => op'.ret <= LeftSamples(clip[op'.h])]_vars

C2_Witness ==
    /\ IsRead(op) /\ op.err = "none"
    /\ op.arg = 1000000 /\ op.ret > 0
    /\ op.src.drift # 0
    /\ ~clip[1].forward

\* C3 as stated: with a source that never reports end of stream, eof is set
\* exactly when LeftSamples() is 0, in every state (here: of a regular clip).
C3_Original ==
    \A h \in DOMAIN clip :
        Regular(clip[h]) => (clip[h].m_eof <=> LeftSamples(clip[h]) = 0)

\* C3: with a source that never reports end of stream, a ReadAudioSamples
\* call entered with eof clear leaves eof set exactly when LeftSamples() is 0
\* after the call.
C3_EofIffNothingLeftAfterRead ==
    [][IsRead(op') /\ ~clip[op'.h].m_eof
         => (clip'[op'.h].m_eof <=> LeftSamples(clip'[op'.h]) = 0)]_vars

C3_Witness ==
    /\ IsRead(op) /\ op.err = "none"
    /\ op.ret > 0 /\ op.ret < op.arg
    /\ clip[1].m_eof /\ LeftSamples(clip[1]) = 0

\* C4 as stated: after an in-range SeekTo(pos), ReadPos() is within one
\* output sample period of Start() + pos.
C4_Original ==
    (/\ op.name = "SeekTo" /\ op.err = "none" /\ SeekInRange(clip[op.h], op.arg)
     /\ Regular(clip[op.h]))
      => Abs(ReadPos(clip[op.h]) - (Start(clip[op.h]) + op.arg))
           * OutSampleRate(clip[op.h]) < 1000

\* C4: after an in-range SeekTo(pos), ReadPos() is at most Start() + pos and
\* falls short of it by less than one output sample period plus 1 ms.
C4_SeekReadPos ==
    op.name = "SeekTo" /\ op.err = "none" /\ SeekInRange(clip[op.h], op.arg)
      => LET lost == Start(clip[op.h]) + op.arg - ReadPos(clip[op.h])
         IN /\ lost >= 0
            /\ (lost - 1) * OutSampleRate(clip[op.h]) < 1000

C4_Witness ==
    /\ op.name = "SeekTo" /\ op.err = "none"
    /\ op.arg = 1
    /\ clip[1].m_startOffset > 0
    /\ Start(clip[1]) = 1000
    /\ ReadPos(clip[1]) = 1000

\* C5: SeekTo(pos) with pos < 0 or pos > Duration() raises nothing, changes
\* no member of the clip and issues no call on the source session.
C5_SeekOutOfRange ==
    [][op'.name = "SeekTo" /\ (op'.arg < 0 \/ op'.arg > Duration(clip[op'.h]))
         => /\ op'.err = "none"
            /\ clip' = clip
            /\ srcCalls' = <<>>]_vars

C5_Witness ==
    /\ op.name = "SeekTo"
    /\ op.arg > Duration(clip[1])
    /\ clip[1].m_readSamples > 0
    /\ clip[1].m_eof
    /\ srcCalls = <<>>

ValidStartOffset(c, v) ==
    v >= 0 /\ v # c.m_startOffset /\ v + c.m_endOffset < c.m_srcDuration

\* C6 as stated: a valid ChangeStartOffset(v) changes LeftSamples() by
\* exactly new totalSamples - old totalSamples, in both directions (here: on
\* a regular clip that stays regular).
C6_Original ==
    [][(/\ op'.name = "ChangeStartOffset"
        /\ ValidStartOffset(clip[op'.h], op'.arg)
        /\ Regular(clip[op'.h]) /\ Regular(clip'[op'.h]))
         => LeftSamples(clip'[op'.h]) - LeftSamples(clip[op'.h])
              = clip'[op'.h].m_totalSamples - clip[op'.h].m_totalSamples]_vars

\* C6: a valid ChangeStartOffset(v) changes readSamples by exactly new
\* totalSamples - old totalSamples; LeftSamples() is unchanged in the forward
\* direction, and in the reverse direction it changes by that amount when
\* readSamples is within [0, totalSamples] before and after.
C6_StartOffsetLeftSamples ==
    [][op'.name = "ChangeStartOffset" /\ ValidStartOffset(clip[op'.h], op'.arg)
         => LET old == clip[op'.h]
                new == clip'[op'.h]
                delta == new.m_totalSamples - old.m_totalSamples
            IN /\ op'.err = "none"
               /\ new.m_readSamples - old.m_readSamples = delta
               /\ old.forward => LeftSamples(new) = LeftSamples(old)
               /\ (/\ ~old.forward
                   /\ old.m_readSamples >= 0
                   /\ old.m_readSamples <= old.m_totalSamples
                   /\ new.m_readSamples >= 0)
                    => LeftSamples(new) - LeftSamples(old) = delta]_vars

C6_Witness ==
    /\ op.name = "ChangeStartOffset" /\ op.err = "none"
    /\ op.arg = 0
    /\ ~clip[1].forward
    /\ clip[1].m_readSamples > 0
    /\ clip[1].m_readSamples < clip[1].m_totalSamples
    /\ LeftSamples(clip[1]) > OutSampleRate(clip[1])

\* C7 as stated: on a clip that is not at eof, a read asking for more than
\* LeftSamples() returns exactly LeftSamples() samples and sets eof, whatever
\* position the source reports (here: on a regular clip and a source that
\* delivers what it is asked for).
C7_Original ==
    [][(/\ IsRead(op') /\ ~clip[op'.h].m_eof /\ op'.arg > LeftSamples(clip[op'.h])
        /\ Regular(clip[op'.h]) /\ op'.src.read = "full" /\ op'.err = "none")
         => /\ op'.ret = LeftSamples(clip[op'.h])
            /\ clip'[op'.h].m_eof
            /\ op'.eof]_vars

\* C7: on a clip that is not at eof, a read asking for more than
\* LeftSamples() returns exactly LeftSamples() samples and sets eof when it
\* backfills no silence and the source delivers every sample asked for; a
\* read that backfills silence returns min(LeftSamples(), discrepancy)
\* samples.
C7_ReadBeyondLeft ==
    [][IsRead(op') /\ ~clip[op'.h].m_eof /\ op'.arg > LeftSamples(clip[op'.h])
         => LET old == clip[op'.h]
                sourceReadPos == ExpectedReadPos(old) + op'.src.drift
            IN /\ (~op'.amat.silence /\ op'.err = "none"
                     /\ op'.src.read \in {"full", "fullEof"})
                    => /\ op'.ret = LeftSamples(old)
                       /\ clip'[op'.h].m_eof
                       /\ op'.eof
               /\ op'.amat.silence
                    => op'.ret = Min(LeftSamples(old),
                                     DiffSamples(old, sourceReadPos))]_vars

C7_Witness ==
    /\ IsRead(op) /\ op.err = "none"
    /\ op.arg = 1000000
    /\ op.src.drift # 0 /\ ~op.amat.silence
    /\ op.ret > OutSampleRate(clip[1])
    /\ clip[1].m_eof /\ op.eof
    /\ ~clip[1].forward

Max(a, b) == IF a >= b THEN a ELSE b

\* the timeline ranges [start, end) of two clips have a point in common
RangesIntersect(c1, c2) ==
    Max(Start(c1), Start(c2)) < Min(End(c1), End(c2))

Updated == op.name \in {"Update", "AudioOverlap::CreateInstance"}

\* C8 as stated: HasOverlap(a, b) = HasOverlap(b, a) for the clips of every
\* reachable state.
C8_Original ==
    op.name = "HasOverlap" => op.ret = HasOverlap(clip[op.arg], clip[op.h])

\* C9 as stated: after every Update() the window has Start() <= End(), and
\* it is (0,0) exactly when the two ranges [start, end) do not intersect.
C9_Original ==
    Updated =>
        \A i \in DOMAIN overlap :
            LET o == overlap[i] IN
            /\ OverlapStart(o) <= OverlapEnd(o)
            /\ (OverlapStart(o) = 0 /\ OverlapEnd(o) = 0)
                 <=> ~RangesIntersect(clip[FrontClip(o)], clip[RearClip(o)])

\* C10: after every Update() the front clip starts no later than the rear
\* clip, whatever the order they were given in, and when the ranges intersect
\* the window runs from the rear clip's start to the earlier of the two ends.
C10_UpdateWindow ==
    Updated =>
        \A i \in DOMAIN overlap :
            LET o == overlap[i]
                front == clip[FrontClip(o)]
                rear == clip[RearClip(o)]
            IN /\ Start(front) <= Start(rear)
               /\ {FrontClip(o), RearClip(o)} = DOMAIN clip
               /\ RangesIntersect(front, rear)
                    => /\ OverlapStart(o) = Start(rear)
                       /\ OverlapEnd(o) = Min(End(front), End(rear))

\* clip 2 at [0,2000) and clip 1 at [1000,3000), passed as (1, 2): front is
\* clip 2, rear is clip 1, the window is [1000,2000)
C10_Witness ==
    /\ op.name = "Update"
    /\ overlap # <<>>
    /\ FrontClip(overlap[1]) = 2 /\ RearClip(overlap[1]) = 1
    /\ Start(clip[2]) = 0 /\ End(clip[2]) = 2000
    /\ Start(clip[1]) = 1000 /\ End(clip[1]) = 3000
    /\ OverlapStart(overlap[1]) = 1000 /\ OverlapEnd(overlap[1]) = 2000
    /\ OverlapDuration(overlap[1]) = 1000

\* C11 as stated: in every reachable state of a clip both offsets are not
\* negative and together they are less than the source duration.
C11_Original ==
    \A h \in DOMAIN clip :
        /\ clip[h].m_startOffset >= 0
        /\ clip[h].m_endOffset >= 0
        /\ clip[h].m_startOffset + clip[h].m_endOffset < clip[h].m_srcDuration

\* C12 as stated: a SeekTo or ReadAudioSamples call during which the source
\* session reported a failure (of the seek, the initial seek, the skip read or
\* the real read) throws a runtime_error.
C12_Original ==
    (/\ op.name \in {"SeekTo", "ReadAudioSamples"}
     /\ (op.src.seek = "fail" \/ op.src.skip = "fail" \/ op.src.read = "fail"))
      => op.err = "runtime_error"

IsOverlapRead(o) == o.name = "AudioOverlap::ReadAudioSamples"

\* C13: an overlap always has a transition that is not null and is bound to
\* this overlap; SetTransition(null) installs a default transition and
\* SetTransition of a transition installs that transition.
C13_TransitionBound ==
    \A i \in DOMAIN overlap :
        LET t == GetTransition(overlap[i]) IN
        /\ t.kind # "null"
        /\ t.m_overlapPtr = i
        /\ op.name = "SetTransition"
             => t.kind = (IF op.arg.kind = "null" THEN "default" ELSE op.arg.kind)

C13_Witness ==
    /\ op.name = "SetTransition"
    /\ op.arg = NullTransition
    /\ GetTransition(overlap[1]) = ApplyTo(DefaultAudioTransition_Impl, 1)
    /\ clip[1].m_readSamples > 0

\* C14: an overlap with the default transition returns from
\* ReadAudioSamples the buffer its rear clip delivered.
C14_DefaultPassThrough ==
    (/\ IsOverlapRead(op) /\ op.err = "none" /\ Len(op.sub) = 2
     /\ GetTransition(overlap[1]).kind = "default")
      => /\ op.amat = op.sub[2].amat
         /\ op.sub[2].h = RearClip(overlap[1])

C14_Witness ==
    /\ IsOverlapRead(op) /\ op.err = "none" /\ Len(op.sub) = 2
    /\ GetTransition(overlap[1]).kind = "default"
    /\ op.sub[1].amat # op.sub[2].amat
    /\ op.sub[1].amat.w > 0
    /\ op.amat.w > 0
    /\ op.amat = op.sub[2].amat

\* C19 as stated: in every ReadAudioSamples call of an overlap the front
\* clip and the rear clip consume the same number of samples and hand
\* buffers of equal length to the transition.
C19_Original ==
    (IsOverlapRead(op) /\ op.err = "none" /\ Len(op.sub) = 2)
      => /\ op.sub[1].ret = op.sub[2].ret
         /\ op.sub[1].amat.w = op.sub[2].amat.w

\* C15 as stated: every in-range SeekTo(pos) whose source seek does not fail
\* sets readSamples to pos * outputSampleRate / 1000 and clears eof, from
\* any prior state, so that the clip is readable again (here: of a regular
\* clip that has samples left to read at the position sought).
C15_Original ==
    [][(/\ op'.name = "SeekTo" /\ op'.err = "none"
        /\ SeekInRange(clip[op'.h], op'.arg)
        /\ Regular(clip[op'.h])
        /\ LeftSamples(clip'[op'.h]) > 0)
         => /\ clip'[op'.h].m_readSamples
                 = CDiv(op'.arg * OutSampleRate(clip[op'.h]), 1000)
            /\ ~clip'[op'.h].m_eof]_vars

ValidEndOffset(c, v) ==
    v >= 0 /\ v # c.m_endOffset /\ c.m_startOffset + v < c.m_srcDuration

\* C16 as stated: a valid ChangeEndOffset(v) adjusts readSamples by exactly
\* new totalSamples - old totalSamples, as ChangeStartOffset does (here: on
\* a regular clip).
C16_Original ==
    [][(/\ op'.name = "ChangeEndOffset"
        /\ ValidEndOffset(clip[op'.h], op'.arg)
        /\ Regular(clip[op'.h]))
         => clip'[op'.h].m_readSamples - clip[op'.h].m_readSamples
              = clip'[op'.h].m_totalSamples - clip[op'.h].m_totalSamples]_vars

\* C16: a valid ChangeEndOffset(v) recomputes duration and totalSamples and
\* leaves readSamples as it is; a valid ChangeStartOffset(v) recomputes them
\* and adjusts readSamples by exactly new totalSamples - old totalSamples.
C16_EndOffsetKeepsReadSamples ==
    [][LET old == clip[op'.h]
           new == clip'[op'.h]
           recomputed ==
               /\ op'.err = "none"
               /\ Duration(new) = old.m_srcDuration + old.m_padding
                                    - new.m_startOffset - new.m_endOffset
               /\ new.m_totalSamples
                    = CDiv(Duration(new) * OutSampleRate(new), 1000)
       IN /\ (op'.name = "ChangeEndOffset" /\ ValidEndOffset(old, op'.arg))
               => /\ recomputed
                  /\ new.m_endOffset = op'.arg
                  /\ new.m_readSamples = old.m_readSamples
          /\ (op'.name = "ChangeStartOffset" /\ ValidStartOffset(old, op'.arg))
               => /\ recomputed
                  /\ new.m_startOffset = op'.arg
                  /\ new.m_readSamples - old.m_readSamples
                       = new.m_totalSamples - old.m_totalSamples]_vars

\* a tail trim behind the position already read
C16_Witness ==
    /\ op.name = "ChangeEndOffset" /\ op.err = "none"
    /\ clip[1].m_endOffset = op.arg /\ op.arg > 0
    /\ clip[1].m_totalSamples > 0
    /\ clip[1].m_readSamples > clip[1].m_totalSamples
    /\ clip[1].m_padding = 0

\* the reads a call issued on the source session, in order
ReadsIssued(calls) == SelectSeq(calls, LAMBDA x : x.f = "ReadAudioSamples")

\* a read that got past the eof test and threw nothing
Compensating(c, o) ==
    IsRead(o) /\ o.err = "none" /\ ~c.m_eof /\ LeftSamples(c) > 0

\* the source's reported position minus the expected one, in samples
Discrepancy(c, o) ==
    CDiv(Abs(o.src.drift) * OutSampleRate(c), 1000)

\* the source is further along in the reading direction than expected
SourceAhead(c, o) == IF c.forward THEN o.src.drift > 0 ELSE o.src.drift < 0

\* the source has not yet come as far in the reading direction as expected
SourceBehind(c, o) == IF c.forward THEN o.src.drift < 0 ELSE o.src.drift > 0

\* C17 as stated: with a discrepancy of more than 200 samples the read skips
\* when the source is ahead in the reading direction and returns silence
\* otherwise.
C17_Original ==
    [][(Compensating(clip[op'.h], op') /\ Regular(clip[op'.h])
        /\ Discrepancy(clip[op'.h], op') > 200)
         => (SourceAhead(clip[op'.h], op') <=> ~op'.amat.silence)]_vars

\* C17: with a discrepancy of more than 200 samples the read, when the
\* source is behind the expected position in the reading direction, reads
\* and discards the discrepancy from the source and then reads the clamped
\* request; otherwise it returns min(clamped request, discrepancy) samples
\* of silence and reads nothing from the source.  With a discrepancy of at
\* most 200 samples it does neither: it reads the clamped request once.
C17_SkipWhenBehind ==
    [][Compensating(clip[op'.h], op')
         => LET c == clip[op'.h]
                request == ClampRequest(op'.arg, LeftSamples(c))
                discrepancy == Discrepancy(c, op')
                reads == ReadsIssued(srcCalls')
            IN /\ (discrepancy > 200 /\ SourceBehind(c, op'))
                    => /\ reads = <<SrcCall("ReadAudioSamples", discrepancy),
                                    SrcCall("ReadAudioSamples", request)>>
                       /\ ~op'.amat.silence
               /\ (discrepancy > 200 /\ ~SourceBehind(c, op'))
                    => /\ reads = <<>>
                       /\ op'.amat.silence
                       /\ op'.amat.w = Min(request, discrepancy)
                       /\ op'.ret = op'.amat.w
               /\ discrepancy <= 200
                    => /\ reads = <<SrcCall("ReadAudioSamples", request)>>
                       /\ ~op'.amat.silence]_vars

\* a reverse read that skipped half a second and then read the rest
C17_Witness ==
    /\ IsRead(op) /\ op.err = "none"
    /\ ~clip[1].forward
    /\ op.src.drift = 500
    /\ Len(ReadsIssued(srcCalls)) = 2
    /\ srcCalls[1].arg < srcCalls[2].arg
    /\ op.ret > 0 /\ ~op.amat.silence

\* C18 as stated: every buffer that is not empty carries the timestamp
\* ReadPos() had immediately before the call (here: of a regular clip).
C18_Original ==
    [][(/\ IsRead(op') /\ op'.err = "none" /\ op'.amat.w > 0
        /\ Regular(clip[op'.h]))
         => op'.amat.time_stamp = ReadPos(clip[op'.h])]_vars

\* C20 as stated: the consumed-sample counter stays within the clip, so
\* that ReadPos() stays within [Start(), End()] (here: of a clip whose span
\* is its trimmed source).
C20_Original ==
    \A h \in DOMAIN clip :
        (/\ clip[h].m_padding = 0
         /\ clip[h].m_startOffset + clip[h].m_endOffset < clip[h].m_srcDuration)
          => /\ 0 <= clip[h].m_readSamples
             /\ clip[h].m_readSamples <= clip[h].m_totalSamples
             /\ Start(clip[h]) <= ReadPos(clip[h])
             /\ ReadPos(clip[h]) <= End(clip[h])

\* C21: a clip that is only read, with a positive count and from a session
\* whose reads deliver at least one sample or report end of stream, has its
\* eof set eventually, whatever position the session reports; and every
\* such read made with LeftSamples() > 0 and eof clear delivers at least one
\* sample or sets eof.
C21_ReadsReachEof ==
    /\ <>(\A h \in DOMAIN clip : clip[h].m_eof)
    /\ [][\A h \in DOMAIN clip :
              (/\ IsRead(op') /\ op'.h = h /\ op'.arg > 0
               /\ ~clip[h].m_eof /\ LeftSamples(clip[h]) > 0)
                => (op'.ret > 0 \/ clip'[h].m_eof)]_vars

\* a reverse pass that met silence and ends at the head of the clip
C21_Witness ==
    /\ IsRead(op) /\ op.err = "none"
    /\ ~clip[1].forward
    /\ op.amat.silence /\ op.ret > 0
    /\ clip[1].m_eof
    /\ clip[1].m_readSamples = 0

=============================================================================
